---------------------------- MODULE Spec2Model ----------------------------
(***************************************************************************)
(* Model of the Bitcoin transaction codec of src/src/lib.rs: CompactSize,  *)
(* OutPoint, Script, TransactionInput and BitcoinTransaction, each with    *)
(* its to_bytes / from_bytes pair.                                         *)
(*                                                                         *)
(* Machine integers.  TLC's integers are 32 bits wide, so a u16, u32 or    *)
(* u64 is held as the sequence of its base-256 digits, most significant    *)
(* digit first (the way the number is written in hexadecimal): 0x0102 as a *)
(* u32 is <<0, 0, 1, 2>>.  A byte (u8) and a buffer length or offset that  *)
(* the code only ever compares with the length of a buffer is a natural    *)
(* number.  usize is 64 bits wide (a 64-bit target).                       *)
(***************************************************************************)
EXTENDS Naturals, Sequences, FiniteSets

VARIABLES
    value,            \* the value most recently constructed (new)
    bytes,            \* the byte buffer the caller holds
    result,           \* the Result of the last from_bytes call on bytes
    op,               \* the operation that ran last
    appended,         \* how many bytes the caller appended to the buffer
    truncated,        \* whether the caller cut the buffer short
    overflow_checks   \* build profile: TRUE = overflow checks on (debug)

vars == <<value, bytes, result, op, appended, truncated, overflow_checks>>

(***************************************************************************)
(* Bounds of the model.                                                    *)
(***************************************************************************)
MaxInputs == 2      \* inputs of a constructed transaction
MaxTrailing == 2    \* bytes the caller appends to a buffer

(***************************************************************************)
(* Program constants.                                                      *)
(***************************************************************************)
TxidLen == 32        \* [u8; 32]
OutPointSize == 36   \* txid ++ vout
U32Len == 4          \* bytes of a u32
U64Len == 8          \* bytes of a u64 / usize

(***************************************************************************)
(* Machine integers as digit sequences.                                    *)
(***************************************************************************)
Zeros(n) == [i \in 1..n |-> 0]

Reverse(s) == [i \in 1..Len(s) |-> s[Len(s) + 1 - i]]

\* uN::to_le_bytes: least significant byte first.
to_le_bytes(v) == Reverse(v)

\* uN::from_le_bytes.
from_le_bytes(b) == Reverse(b)

\* `x as uN` to a narrower type keeps the low-order digits.
Truncate(v, n) == SubSeq(v, Len(v) - n + 1, Len(v))

\* `x as uN` to a wider type zero-extends.
Extend(v, n) == Zeros(n - Len(v)) \o v

\* A small natural (a buffer length, below 2^24) as a u64 / usize.
AsU64(n) == Zeros(U64Len - 3) \o <<(n \div 65536) % 256, (n \div 256) % 256, n % 256>>

\* A u64 / usize known to be below 2^24 as a natural.
AsNat(v) == v[Len(v) - 2] * 65536 + v[Len(v) - 1] * 256 + v[Len(v)]

\* a < b and a <= b on integers of the same width.
Less(a, b) ==
    \E i \in 1..Len(a) : a[i] < b[i] /\ \A j \in 1..(i - 1) : a[j] = b[j]

Leq(a, b) == a = b \/ Less(a, b)

RECURSIVE CarryInto(_, _, _)
\* The carry into digit i of a + b.
CarryInto(a, b, i) ==
    IF i = Len(a) THEN 0
    ELSE (a[i + 1] + b[i + 1] + CarryInto(a, b, i + 1)) \div 256

\* usize addition: the wrapped sum and whether it overflowed.
AddUsize(a, b) ==
    [sum      |-> [i \in 1..Len(a) |-> (a[i] + b[i] + CarryInto(a, b, i)) % 256],
     overflow |-> a[1] + b[1] + CarryInto(a, b, 1) >= 256]

U64_FC == AsU64(252)
U64_FFFF == AsU64(65535)
U64_FFFFFFFF == Zeros(4) \o <<255, 255, 255, 255>>

(***************************************************************************)
(* Result<(Self, usize), BitcoinError>, and a panic of the call.           *)
(***************************************************************************)
Ok(v, n) == [tag |-> "Ok", value |-> v, used |-> n]
Err(e) == [tag |-> "Err", error |-> e]
Panic(m) == [tag |-> "Panic", message |-> m]
NoResult == [tag |-> "None"]
NoValue == [none |-> TRUE]

\* &bytes[from..]
SliceFrom(b, from) == SubSeq(b, from + 1, Len(b))

\* &bytes[from..to], in range
Slice(b, from, to) == SubSeq(b, from + 1, to)

(***************************************************************************)
(* CompactSize                                                             *)
(***************************************************************************)
CompactSize_new(v) == [value |-> v]

\* Variant: the single-byte range taken one too far (0..=0xFD).
CompactSize_to_bytes_wide_first_arm(self) ==
    IF Leq(self.value, AsU64(253)) THEN <<Truncate(self.value, 1)[1]>>
    ELSE IF Leq(self.value, U64_FFFF)
        THEN <<253>> \o to_le_bytes(Truncate(self.value, 2))
    ELSE IF Leq(self.value, U64_FFFFFFFF)
        THEN <<254>> \o to_le_bytes(Truncate(self.value, 4))
    ELSE <<255>> \o to_le_bytes(self.value)

CompactSize_to_bytes(self) ==
    IF Leq(self.value, U64_FC) THEN <<Truncate(self.value, 1)[1]>>
    ELSE IF Leq(self.value, U64_FFFF)
        THEN <<253>> \o to_le_bytes(Truncate(self.value, 2))
    ELSE IF Leq(self.value, U64_FFFFFFFF)
        THEN <<254>> \o to_le_bytes(Truncate(self.value, 4))
    ELSE <<255>> \o to_le_bytes(self.value)

\* Variant: the 2-byte field read with u16::from_be_bytes.
CompactSize_from_bytes_be16(b) ==
    IF b = <<>> THEN Err("InsufficientBytes")
    ELSE LET first_byte == b[1] IN
        IF first_byte <= 252
            THEN Ok(CompactSize_new(Extend(<<first_byte>>, U64Len)), 1)
        ELSE IF first_byte = 253 THEN
            IF Len(b) < 3 THEN Err("InsufficientBytes")
            ELSE Ok(CompactSize_new(Extend(<<b[2], b[3]>>, U64Len)), 3)
        ELSE IF first_byte = 254 THEN
            IF Len(b) < 5 THEN Err("InsufficientBytes")
            ELSE Ok(CompactSize_new(
                        Extend(from_le_bytes(<<b[2], b[3], b[4], b[5]>>), U64Len)), 5)
        ELSE
            IF Len(b) < 9 THEN Err("InsufficientBytes")
            ELSE Ok(CompactSize_new(from_le_bytes(
                        <<b[2], b[3], b[4], b[5], b[6], b[7], b[8], b[9]>>)), 9)

\* Variant: a strict decoder, which rejects a form wider than the value needs.
CompactSize_from_bytes_strict(b) ==
    IF b = <<>> THEN Err("InsufficientBytes")
    ELSE LET first_byte == b[1] IN
        IF first_byte <= 252
            THEN Ok(CompactSize_new(Extend(<<first_byte>>, U64Len)), 1)
        ELSE IF first_byte = 253 THEN
            IF Len(b) < 3 THEN Err("InsufficientBytes")
            ELSE IF b[3] = 0 /\ b[2] <= 252 THEN Err("InvalidFormat")
            ELSE Ok(CompactSize_new(Extend(from_le_bytes(<<b[2], b[3]>>), U64Len)), 3)
        ELSE IF first_byte = 254 THEN
            IF Len(b) < 5 THEN Err("InsufficientBytes")
            ELSE IF b[4] = 0 /\ b[5] = 0 THEN Err("InvalidFormat")
            ELSE Ok(CompactSize_new(
                        Extend(from_le_bytes(<<b[2], b[3], b[4], b[5]>>), U64Len)), 5)
        ELSE
            IF Len(b) < 9 THEN Err("InsufficientBytes")
            ELSE IF \A i \in 6..9 : b[i] = 0 THEN Err("InvalidFormat")
            ELSE Ok(CompactSize_new(from_le_bytes(
                        <<b[2], b[3], b[4], b[5], b[6], b[7], b[8], b[9]>>)), 9)

CompactSize_from_bytes(b) ==
    IF b = <<>> THEN Err("InsufficientBytes")
    ELSE LET first_byte == b[1] IN
        IF first_byte <= 252
            THEN Ok(CompactSize_new(Extend(<<first_byte>>, U64Len)), 1)
        ELSE IF first_byte = 253 THEN
            IF Len(b) < 3 THEN Err("InsufficientBytes")
            ELSE Ok(CompactSize_new(Extend(from_le_bytes(<<b[2], b[3]>>), U64Len)), 3)
        ELSE IF first_byte = 254 THEN
            IF Len(b) < 5 THEN Err("InsufficientBytes")
            ELSE Ok(CompactSize_new(
                        Extend(from_le_bytes(<<b[2], b[3], b[4], b[5]>>), U64Len)), 5)
        ELSE
            IF Len(b) < 9 THEN Err("InsufficientBytes")
            ELSE Ok(CompactSize_new(from_le_bytes(
                        <<b[2], b[3], b[4], b[5], b[6], b[7], b[8], b[9]>>)), 9)

(***************************************************************************)
(* OutPoint                                                                *)
(***************************************************************************)
OutPoint_new(txid, vout) == [txid |-> txid, vout |-> vout]

OutPoint_to_bytes(self) == self.txid \o to_le_bytes(self.vout)

OutPoint_from_bytes(b) ==
    IF Len(b) < OutPointSize THEN Err("InsufficientBytes")
    ELSE LET txid == Slice(b, 0, TxidLen)
             vout == from_le_bytes(Slice(b, TxidLen, OutPointSize))
         IN Ok(OutPoint_new(txid, vout), OutPointSize)

(***************************************************************************)
(* Script                                                                  *)
(***************************************************************************)
Script_new(b) == [bytes |-> b]

Script_to_bytes(self) ==
    CompactSize_to_bytes(CompactSize_new(AsU64(Len(self.bytes)))) \o self.bytes

\* Variant: `bytes.len() <= size_len + script_len`, one byte too many required.
Script_from_bytes_needs_one_more(b) ==
    LET r == CompactSize_from_bytes(b) IN
    IF r.tag # "Ok" THEN r
    ELSE LET size_len == r.used
             script_len == r.value.value
             total == AddUsize(AsU64(size_len), script_len)
         IN
         IF total.overflow /\ overflow_checks
             THEN Panic("attempt to add with overflow")
         ELSE IF Leq(AsU64(Len(b)), total.sum) THEN Err("InsufficientBytes")
         ELSE LET end == AsNat(total.sum) IN
             IF end < size_len THEN Panic("slice index starts after its end")
             ELSE Ok(Script_new(Slice(b, size_len, end)), end)

\* size_len + script_len is a usize addition: with overflow checks it
\* panics on overflow, without them it wraps; the slice
\* bytes[size_len..size_len + script_len] panics when its end is below its
\* start or beyond the buffer.
Script_from_bytes(b) ==
    LET r == CompactSize_from_bytes(b) IN
    IF r.tag # "Ok" THEN r
    ELSE LET size_len == r.used
             script_len == r.value.value
             total == AddUsize(AsU64(size_len), script_len)
         IN
         IF total.overflow /\ overflow_checks
             THEN Panic("attempt to add with overflow")
         ELSE IF Less(AsU64(Len(b)), total.sum) THEN Err("InsufficientBytes")
         ELSE LET end == AsNat(total.sum) IN
             IF end < size_len THEN Panic("slice index starts after its end")
             ELSE Ok(Script_new(Slice(b, size_len, end)), end)

(***************************************************************************)
(* TransactionInput                                                        *)
(***************************************************************************)
TransactionInput_new(previous_output, script_sig, sequence) ==
    [previous_output |-> previous_output,
     script_sig      |-> script_sig,
     sequence        |-> sequence]

TransactionInput_to_bytes(self) ==
    OutPoint_to_bytes(self.previous_output)
        \o Script_to_bytes(self.script_sig)
        \o to_le_bytes(self.sequence)

TransactionInput_from_bytes(b) ==
    LET o == OutPoint_from_bytes(b) IN
    IF o.tag # "Ok" THEN o
    ELSE IF Len(b) <= o.used THEN Err("InsufficientBytes")
    ELSE LET s == Script_from_bytes(SliceFrom(b, o.used)) IN
        IF s.tag # "Ok" THEN s
        ELSE LET sequence_offset == o.used + s.used IN
            IF Len(b) < sequence_offset + U32Len THEN Err("InsufficientBytes")
            ELSE Ok(TransactionInput_new(
                        o.value, s.value,
                        from_le_bytes(Slice(b, sequence_offset,
                                            sequence_offset + U32Len))),
                    sequence_offset + U32Len)

(***************************************************************************)
(* BitcoinTransaction                                                      *)
(***************************************************************************)
BitcoinTransaction_new(version, inputs, lock_time) ==
    [version |-> version, inputs |-> inputs, lock_time |-> lock_time]

RECURSIVE InputsToBytes(_)
\* for input in &self.inputs { bytes.extend_from_slice(&input.to_bytes()) }
InputsToBytes(inputs) ==
    IF inputs = <<>> THEN <<>>
    ELSE TransactionInput_to_bytes(Head(inputs)) \o InputsToBytes(Tail(inputs))

\* Variant: lock_time written before the inputs.
BitcoinTransaction_to_bytes_lock_time_first(self) ==
    to_le_bytes(self.version)
        \o CompactSize_to_bytes(CompactSize_new(AsU64(Len(self.inputs))))
        \o to_le_bytes(self.lock_time)
        \o InputsToBytes(self.inputs)

BitcoinTransaction_to_bytes(self) ==
    to_le_bytes(self.version)
        \o CompactSize_to_bytes(CompactSize_new(AsU64(Len(self.inputs))))
        \o InputsToBytes(self.inputs)
        \o to_le_bytes(self.lock_time)

RECURSIVE ReadInputs_prepend(_, _, _, _, _)
\* Variant: inputs.insert(0, input) instead of inputs.push(input).
ReadInputs_prepend(b, count, i, offset, inputs) ==
    IF ~Less(AsU64(i), count) THEN Ok(inputs, offset)
    ELSE IF offset >= Len(b) THEN Err("InsufficientBytes")
    ELSE LET r == TransactionInput_from_bytes(SliceFrom(b, offset)) IN
        IF r.tag # "Ok" THEN r
        ELSE ReadInputs_prepend(b, count, i + 1, offset + r.used,
                                <<r.value>> \o inputs)

RECURSIVE ReadInputs(_, _, _, _, _)
\* for _ in 0..input_count.value { ... }: i is the loop counter.
ReadInputs(b, count, i, offset, inputs) ==
    IF ~Less(AsU64(i), count) THEN Ok(inputs, offset)
    ELSE IF offset >= Len(b) THEN Err("InsufficientBytes")
    ELSE LET r == TransactionInput_from_bytes(SliceFrom(b, offset)) IN
        IF r.tag # "Ok" THEN r
        ELSE ReadInputs(b, count, i + 1, offset + r.used, Append(inputs, r.value))

\* Variant: the buffer must end with the transaction
\* (`bytes.len() != offset + 4` rejected).
BitcoinTransaction_from_bytes_whole_buffer(b) ==
    IF Len(b) < U32Len THEN Err("InsufficientBytes")
    ELSE LET version == from_le_bytes(Slice(b, 0, U32Len))
             c == CompactSize_from_bytes(SliceFrom(b, U32Len))
         IN
         IF c.tag # "Ok" THEN c
         ELSE LET l == ReadInputs(b, c.value.value, 0, U32Len + c.used, <<>>) IN
             IF l.tag # "Ok" THEN l
             ELSE LET offset == l.used IN
                 IF Len(b) # offset + U32Len THEN Err("InsufficientBytes")
                 ELSE Ok(BitcoinTransaction_new(
                             version, l.value,
                             from_le_bytes(Slice(b, offset, offset + U32Len))),
                         offset + U32Len)

\* Variant: the length check before lock_time left out, so that the slice
\* bytes[offset..offset + 4] panics on a short buffer.
BitcoinTransaction_from_bytes_unchecked_lock_time(b) ==
    IF Len(b) < U32Len THEN Err("InsufficientBytes")
    ELSE LET version == from_le_bytes(Slice(b, 0, U32Len))
             c == CompactSize_from_bytes(SliceFrom(b, U32Len))
         IN
         IF c.tag # "Ok" THEN c
         ELSE LET l == ReadInputs(b, c.value.value, 0, U32Len + c.used, <<>>) IN
             IF l.tag # "Ok" THEN l
             ELSE LET offset == l.used IN
                 IF Len(b) < offset + U32Len
                     THEN Panic("range end index out of range for slice")
                 ELSE Ok(BitcoinTransaction_new(
                             version, l.value,
                             from_le_bytes(Slice(b, offset, offset + U32Len))),
                         offset + U32Len)

BitcoinTransaction_from_bytes(b) ==
    IF Len(b) < U32Len THEN Err("InsufficientBytes")
    ELSE LET version == from_le_bytes(Slice(b, 0, U32Len))
             c == CompactSize_from_bytes(SliceFrom(b, U32Len))
         IN
         IF c.tag # "Ok" THEN c
         ELSE LET l == ReadInputs(b, c.value.value, 0, U32Len + c.used, <<>>) IN
             IF l.tag # "Ok" THEN l
             ELSE LET offset == l.used IN
                 IF Len(b) < offset + U32Len THEN Err("InsufficientBytes")
                 ELSE Ok(BitcoinTransaction_new(
                             version, l.value,
                             from_le_bytes(Slice(b, offset, offset + U32Len))),
                         offset + U32Len)

(***************************************************************************)
(* The values the constructors are called with.                            *)
(***************************************************************************)
U64Samples ==
    { AsU64(0), AsU64(1), AsU64(5), AsU64(252), AsU64(253), AsU64(254),
      AsU64(255), AsU64(256), AsU64(65535), AsU64(65536),
      <<0, 0, 0, 0, 1, 2, 3, 4>>,
      <<0, 0, 0, 0, 255, 255, 255, 255>>,
      <<0, 0, 0, 1, 0, 0, 0, 0>>,
      <<1, 2, 3, 4, 5, 6, 7, 8>>,
      <<255, 255, 255, 255, 255, 255, 255, 255>> }

U32Samples == { <<0, 0, 0, 0>>, <<0, 0, 0, 1>>, <<1, 2, 3, 4>>, <<255, 255, 255, 255>> }

TxidSamples == { [i \in 1..TxidLen |-> i], [i \in 1..TxidLen |-> 255] }

ScriptSamples ==
    { <<>>, <<81>>, <<255, 1>>,
      [i \in 1..252 |-> i % 256], [i \in 1..253 |-> i % 256] }

\* The inputs constructed transactions are made of.
TxInputSamples ==
    { TransactionInput_new(OutPoint_new([i \in 1..TxidLen |-> i], <<0, 0, 0, 1>>),
                           Script_new(<<>>), <<255, 255, 255, 255>>),
      TransactionInput_new(OutPoint_new([i \in 1..TxidLen |-> 255], <<1, 2, 3, 4>>),
                           Script_new(<<253, 81>>), <<0, 0, 0, 2>>) }

InputLists == UNION { [1..k -> TxInputSamples] : k \in 0..MaxInputs }

(***************************************************************************)
(* Buffers a caller may hand to from_bytes that no to_bytes produced:      *)
(* CompactSize prefixes in every width (minimal or not, up to u64::MAX),   *)
(* alone, as a script length and as an input count.                        *)
(***************************************************************************)
RawCompact ==
    { <<0>>, <<1>>, <<2>>, <<252>>,
      <<253>>, <<253, 1>>, <<254, 1, 0, 0>>, <<255, 1, 2, 3, 4, 5, 6, 7>>,
      <<253, 5, 0>>, <<253, 1, 0>>, <<253, 2, 1>>, <<253, 255, 255>>,
      <<254, 5, 0, 0, 0>>, <<254, 255, 255, 0, 0>>, <<254, 4, 3, 2, 1>>,
      <<255, 5, 0, 0, 0, 0, 0, 0, 0>>,
      <<255, 255, 255, 255, 255, 0, 0, 0, 0>>,
      <<255, 8, 7, 6, 5, 4, 3, 2, 1>>,
      <<255, 246, 255, 255, 255, 255, 255, 255, 255>>,
      <<255, 247, 255, 255, 255, 255, 255, 255, 255>>,
      <<255, 255, 255, 255, 255, 255, 255, 255, 255>> }

RawData == { <<>>, <<81, 82, 83, 84, 85>> }

RawScripts == { c \o d : c \in RawCompact, d \in RawData }

RawInputs ==
    { OutPoint_to_bytes(OutPoint_new([i \in 1..TxidLen |-> i], <<0, 0, 0, 1>>))
        \o s \o <<9, 0, 0, 0>> : s \in RawScripts }

RawCounts == { <<0>>, <<1>>, <<2>>, <<253, 1, 0>>, <<254, 2, 0, 0, 0>>,
               <<255, 255, 255, 255, 255, 255, 255, 255, 255>> }

RawTransactions ==
    { <<1, 0, 0, 0>> \o c \o i \o <<0, 0, 0, 0>> :
        c \in RawCounts, i \in RawInputs \cup {<<>>} }

RawBuffers == RawCompact \cup RawScripts \cup RawInputs \cup RawTransactions

TrailingBytes == { 0, 255 }

(***************************************************************************)
(* The state machine: a caller constructs a value, encodes it, may cut the *)
(* buffer short or append to it, or takes a buffer from elsewhere, and     *)
(* decodes.                                                                *)
(***************************************************************************)
IsCompactSize(v) == DOMAIN v = {"value"}
IsOutPoint(v) == DOMAIN v = {"txid", "vout"}
IsScript(v) == DOMAIN v = {"bytes"}
IsTransactionInput(v) == DOMAIN v = {"previous_output", "script_sig", "sequence"}
IsBitcoinTransaction(v) == DOMAIN v = {"version", "inputs", "lock_time"}

Init ==
    /\ value = NoValue
    /\ bytes = <<>>
    /\ result = NoResult
    /\ op = "init"
    /\ appended = 0
    /\ truncated = FALSE
    /\ overflow_checks \in BOOLEAN

Constructed(v, name) ==
    /\ op = "init"
    /\ value' = v
    /\ bytes' = <<>>
    /\ result' = NoResult
    /\ op' = name
    /\ UNCHANGED <<appended, truncated, overflow_checks>>

NewCompactSize ==
    \E v \in U64Samples : Constructed(CompactSize_new(v), "CompactSize::new")

NewOutPoint ==
    \E t \in TxidSamples, v \in U32Samples :
        Constructed(OutPoint_new(t, v), "OutPoint::new")

NewScript ==
    \E b \in ScriptSamples : Constructed(Script_new(b), "Script::new")

NewTransactionInput ==
    \/ \E i \in TxInputSamples : Constructed(i, "TransactionInput::new")
    \/ \E t \in TxidSamples, b \in ScriptSamples :
        Constructed(TransactionInput_new(OutPoint_new(t, <<1, 2, 3, 4>>),
                                         Script_new(b), <<4, 3, 2, 1>>),
                    "TransactionInput::new")

NewBitcoinTransaction ==
    \E h \in { <<(<<0, 0, 0, 1>>), (<<0, 0, 0, 0>>)>>,
                 <<(<<1, 2, 3, 4>>), (<<255, 255, 255, 254>>)>> },
       i \in InputLists :
        Constructed(BitcoinTransaction_new(h[1], i, h[2]), "BitcoinTransaction::new")

Encoded(b, name) ==
    /\ bytes' = b
    /\ result' = NoResult
    /\ op' = name
    /\ appended' = 0
    /\ truncated' = FALSE
    /\ UNCHANGED <<value, overflow_checks>>

CompactSizeToBytes ==
    /\ IsCompactSize(value)
    /\ Encoded(CompactSize_to_bytes(value), "CompactSize::to_bytes")

OutPointToBytes ==
    /\ IsOutPoint(value)
    /\ Encoded(OutPoint_to_bytes(value), "OutPoint::to_bytes")

ScriptToBytes ==
    /\ IsScript(value)
    /\ Encoded(Script_to_bytes(value), "Script::to_bytes")

TransactionInputToBytes ==
    /\ IsTransactionInput(value)
    /\ Encoded(TransactionInput_to_bytes(value), "TransactionInput::to_bytes")

BitcoinTransactionToBytes ==
    /\ IsBitcoinTransaction(value)
    /\ Encoded(BitcoinTransaction_to_bytes(value), "BitcoinTransaction::to_bytes")

\* The caller loses the last byte of the buffer.
CutLastByte ==
    /\ bytes # <<>>
    /\ value # NoValue
    /\ appended = 0
    /\ bytes' = SubSeq(bytes, 1, Len(bytes) - 1)
    /\ truncated' = TRUE
    /\ result' = NoResult
    /\ op' = "cut"
    /\ UNCHANGED <<value, appended, overflow_checks>>

\* The caller's buffer continues with a byte of a later structure.
AppendByte ==
    /\ appended < MaxTrailing
    /\ ~truncated
    /\ op # "init"
    /\ \E t \in TrailingBytes : bytes' = Append(bytes, t)
    /\ appended' = appended + 1
    /\ result' = NoResult
    /\ op' = "append"
    /\ UNCHANGED <<value, truncated, overflow_checks>>

\* The caller takes a buffer from elsewhere.
Receive ==
    /\ op = "init"
    /\ \E b \in RawBuffers : bytes' = b
    /\ result' = NoResult
    /\ op' = "receive"
    /\ UNCHANGED <<value, appended, truncated, overflow_checks>>

Decoded(r, name) ==
    /\ result' = r
    /\ op' = name
    /\ UNCHANGED <<value, bytes, appended, truncated, overflow_checks>>

CompactSizeFromBytes ==
    Decoded(CompactSize_from_bytes(bytes), "CompactSize::from_bytes")

OutPointFromBytes ==
    Decoded(OutPoint_from_bytes(bytes), "OutPoint::from_bytes")

ScriptFromBytes ==
    Decoded(Script_from_bytes(bytes), "Script::from_bytes")

TransactionInputFromBytes ==
    Decoded(TransactionInput_from_bytes(bytes), "TransactionInput::from_bytes")

BitcoinTransactionFromBytes ==
    Decoded(BitcoinTransaction_from_bytes(bytes), "BitcoinTransaction::from_bytes")

Next ==
    \/ NewCompactSize
    \/ NewOutPoint
    \/ NewScript
    \/ NewTransactionInput
    \/ NewBitcoinTransaction
    \/ CompactSizeToBytes
    \/ OutPointToBytes
    \/ ScriptToBytes
    \/ TransactionInputToBytes
    \/ BitcoinTransactionToBytes
    \/ CutLastByte
    \/ AppendByte
    \/ Receive
    \/ CompactSizeFromBytes
    \/ OutPointFromBytes
    \/ ScriptFromBytes
    \/ TransactionInputFromBytes
    \/ BitcoinTransactionFromBytes

Spec == Init /\ [][Next]_vars

(***************************************************************************)
(* Vocabulary of the properties.                                           *)
(***************************************************************************)
FromBytesOps ==
    { "CompactSize::from_bytes", "OutPoint::from_bytes", "Script::from_bytes",
      "TransactionInput::from_bytes", "BitcoinTransaction::from_bytes" }

\* The from_bytes that `name` names, applied to b.
Decode(name, b) ==
    CASE name = "CompactSize::from_bytes" -> CompactSize_from_bytes(b)
      [] name = "OutPoint::from_bytes" -> OutPoint_from_bytes(b)
      [] name = "Script::from_bytes" -> Script_from_bytes(b)
      [] name = "TransactionInput::from_bytes" -> TransactionInput_from_bytes(b)
      [] name = "BitcoinTransaction::from_bytes" -> BitcoinTransaction_from_bytes(b)

\* The encoding of the constructed value, when `name` is the decoder of its
\* type; <<256>> (no buffer of bytes) otherwise.
EncodingFor(name) ==
    IF name = "CompactSize::from_bytes" /\ IsCompactSize(value)
        THEN CompactSize_to_bytes(value)
    ELSE IF name = "OutPoint::from_bytes" /\ IsOutPoint(value)
        THEN OutPoint_to_bytes(value)
    ELSE IF name = "Script::from_bytes" /\ IsScript(value)
        THEN Script_to_bytes(value)
    ELSE IF name = "TransactionInput::from_bytes" /\ IsTransactionInput(value)
        THEN TransactionInput_to_bytes(value)
    ELSE IF name = "BitcoinTransaction::from_bytes" /\ IsBitcoinTransaction(value)
        THEN BitcoinTransaction_to_bytes(value)
    ELSE <<256>>

IsPrefix(p, b) == Len(p) <= Len(b) /\ SubSeq(b, 1, Len(p)) = p

\* A u32 written least significant byte first.
LE4(v) == <<v[4], v[3], v[2], v[1]>>

\* The wire form of one input, field by field.
InputLayout(i) ==
    i.previous_output.txid
        \o LE4(i.previous_output.vout)
        \o CompactSize_to_bytes(CompactSize_new(AsU64(Len(i.script_sig.bytes))))
        \o i.script_sig.bytes
        \o LE4(i.sequence)

RECURSIVE InputsLayout(_)
InputsLayout(l) == IF l = <<>> THEN <<>> ELSE InputLayout(l[1]) \o InputsLayout(Tail(l))

\* Short byte sequences that may follow a decoded structure.
Tails == UNION { [1..k -> TrailingBytes] : k \in 1..MaxTrailing }

(***************************************************************************)
(* C1.  Round trip: decoding the encoding of a constructed CompactSize,    *)
(* OutPoint, Script, TransactionInput or BitcoinTransaction succeeds and   *)
(* returns the value itself and the length of the encoding; the inputs of  *)
(* a transaction come back in their order.                                 *)
(***************************************************************************)
C1_RoundTrip ==
    (op \in FromBytesOps /\ bytes = EncodingFor(op))
        => result = Ok(value, Len(bytes))

C1_Witness ==
    /\ op = "BitcoinTransaction::from_bytes"
    /\ IsBitcoinTransaction(value)
    /\ Len(value.inputs) = 2
    /\ value.inputs[1] # value.inputs[2]
    /\ bytes = BitcoinTransaction_to_bytes(value)
    /\ result.tag = "Ok"
    /\ result.value.inputs = value.inputs

(***************************************************************************)
(* C2.  BitcoinTransaction::to_bytes is version (4 bytes LE), the          *)
(* CompactSize of the number of inputs, each input (txid, vout LE,         *)
(* CompactSize of the script length, script, sequence LE) in list order,   *)
(* lock_time (4 bytes LE), and nothing else; version 1 with no inputs and  *)
(* lock_time 0 is 01 00 00 00 00 00 00 00 00.                              *)
(***************************************************************************)
C2_TransactionLayout ==
    op = "BitcoinTransaction::to_bytes" =>
        /\ bytes = LE4(value.version)
                     \o CompactSize_to_bytes(CompactSize_new(AsU64(Len(value.inputs))))
                     \o InputsLayout(value.inputs)
                     \o LE4(value.lock_time)
        /\ (value = BitcoinTransaction_new(<<0, 0, 0, 1>>, <<>>, <<0, 0, 0, 0>>)
                => bytes = <<1, 0, 0, 0, 0, 0, 0, 0, 0>>)

C2_Witness ==
    /\ op = "BitcoinTransaction::to_bytes"
    /\ Len(value.inputs) = 2
    /\ value.inputs[1] # value.inputs[2]
    /\ Len(bytes) > 9

(***************************************************************************)
(* C3.  CompactSize::to_bytes produces the smallest of the four forms that *)
(* holds the value: up to 0xFC the byte itself, up to 0xFFFF 0xFD and 2    *)
(* bytes LE, up to 0xFFFFFFFF 0xFE and 4 bytes LE, above that 0xFF and 8   *)
(* bytes LE; with the boundary table of the specification.                 *)
(***************************************************************************)
C3_MinimalEncoding ==
    op = "CompactSize::to_bytes" =>
        LET v == value.value
            top(n) == \A i \in 1..n : v[i] = 0   \* v < 256^(8 - n)
        IN
        /\ (top(7) /\ v[8] <= 252) => bytes = <<v[8]>>
        /\ (top(6) /\ ~(top(7) /\ v[8] <= 252)) => bytes = <<253, v[8], v[7]>>
        /\ (top(4) /\ ~top(6)) => bytes = <<254, v[8], v[7], v[6], v[5]>>
        /\ ~top(4) => bytes = <<255, v[8], v[7], v[6], v[5], v[4], v[3], v[2], v[1]>>
        /\ v = <<0, 0, 0, 0, 0, 0, 0, 252>> => bytes = <<252>>
        /\ v = <<0, 0, 0, 0, 0, 0, 0, 253>> => bytes = <<253, 253, 0>>
        /\ v = <<0, 0, 0, 0, 0, 0, 255, 255>> => bytes = <<253, 255, 255>>
        /\ v = <<0, 0, 0, 0, 0, 1, 0, 0>> => bytes = <<254, 0, 0, 1, 0>>
        /\ v = <<0, 0, 0, 1, 0, 0, 0, 0>> => bytes = <<255, 0, 0, 0, 0, 1, 0, 0, 0>>

C3_Witness ==
    /\ op = "CompactSize::to_bytes"
    /\ value.value = <<0, 0, 0, 0, 0, 1, 0, 0>>
    /\ bytes = <<254, 0, 0, 1, 0>>

(***************************************************************************)
(* C4.  CompactSize::from_bytes fails with InsufficientBytes, and nothing  *)
(* else, on an empty buffer and on a marker 0xFD / 0xFE / 0xFF with fewer  *)
(* than 3 / 5 / 9 bytes; otherwise it succeeds with the first byte as the  *)
(* value and 1 consumed, or with the little-endian value of the next       *)
(* 2 / 4 / 8 bytes and 3 / 5 / 9 consumed.                                 *)
(***************************************************************************)
C4_CompactSizeDecode ==
    op = "CompactSize::from_bytes" =>
        LET b == bytes
            short == \/ b = <<>>
                     \/ b[1] = 253 /\ Len(b) < 3
                     \/ b[1] = 254 /\ Len(b) < 5
                     \/ b[1] = 255 /\ Len(b) < 9
        IN
        IF short THEN result = Err("InsufficientBytes")
        ELSE /\ result.tag = "Ok"
             /\ b[1] <= 252 =>
                    result = Ok([value |-> <<0, 0, 0, 0, 0, 0, 0, b[1]>>], 1)
             /\ b[1] = 253 =>
                    result = Ok([value |-> <<0, 0, 0, 0, 0, 0, b[3], b[2]>>], 3)
             /\ b[1] = 254 =>
                    result = Ok([value |-> <<0, 0, 0, 0, b[5], b[4], b[3], b[2]>>], 5)
             /\ b[1] = 255 =>
                    result = Ok([value |-> <<b[9], b[8], b[7], b[6],
                                             b[5], b[4], b[3], b[2]>>], 9)

C4_Witness ==
    /\ op = "CompactSize::from_bytes"
    /\ bytes = <<253, 1>>
    /\ result = Err("InsufficientBytes")

(***************************************************************************)
(* C5.  No decode panics: Script::from_bytes, TransactionInput::from_bytes *)
(* and BitcoinTransaction::from_bytes return a success value or the error  *)
(* InsufficientBytes for every buffer, also when a script length prefix or *)
(* an input count is far larger than the buffer.                           *)
(***************************************************************************)
C5_NoPanic ==
    op \in { "Script::from_bytes", "TransactionInput::from_bytes",
             "BitcoinTransaction::from_bytes" }
        => result.tag = "Ok" \/ result = Err("InsufficientBytes")

(***************************************************************************)
(* C6.  A transaction's encoding followed by further bytes decodes to the  *)
(* transaction and the length of its encoding, which is less than the      *)
(* length of the buffer.                                                   *)
(***************************************************************************)
C6_TrailingData ==
    LET enc == EncodingFor("BitcoinTransaction::from_bytes") IN
    (op = "BitcoinTransaction::from_bytes" /\ IsPrefix(enc, bytes)
            /\ Len(bytes) > Len(enc))
        => /\ result = Ok(value, Len(enc))
           /\ result.used < Len(bytes)

C6_Witness ==
    /\ op = "BitcoinTransaction::from_bytes"
    /\ IsBitcoinTransaction(value)
    /\ Len(value.inputs) = 1
    /\ appended = 2
    /\ bytes = BitcoinTransaction_to_bytes(value) \o <<255, 0>>
    /\ result.tag = "Ok"

(***************************************************************************)
(* C7.  Decoding a strict prefix of a transaction's encoding (its last     *)
(* byte removed, or more) fails with InsufficientBytes.                    *)
(***************************************************************************)
C7_TruncationDetected ==
    LET enc == EncodingFor("BitcoinTransaction::from_bytes") IN
    (op = "BitcoinTransaction::from_bytes" /\ IsPrefix(bytes, enc)
            /\ Len(bytes) < Len(enc))
        => result = Err("InsufficientBytes")

C7_Witness ==
    /\ op = "BitcoinTransaction::from_bytes"
    /\ IsBitcoinTransaction(value)
    /\ Len(value.inputs) = 1
    /\ LET enc == BitcoinTransaction_to_bytes(value) IN
        bytes = SubSeq(enc, 1, Len(enc) - 1)
    /\ result = Err("InsufficientBytes")

(***************************************************************************)
(* C8.  BitcoinTransaction::from_bytes decodes exactly as many inputs as   *)
(* the count prefix says: on success the inputs are count many, in buffer  *)
(* order, each starting where the previous one ended; when the count is    *)
(* larger than the number of complete inputs in the buffer it fails with   *)
(* InsufficientBytes.                                                      *)
(***************************************************************************)
RECURSIVE CompleteInputs(_, _)
\* How many inputs decode back to back from `offset` on.
CompleteInputs(b, offset) ==
    IF offset >= Len(b) THEN 0
    ELSE LET r == TransactionInput_from_bytes(SliceFrom(b, offset)) IN
        IF r.tag # "Ok" THEN 0 ELSE 1 + CompleteInputs(b, offset + r.used)

RECURSIVE ChainedInputs(_, _, _)
\* The first k of them.
ChainedInputs(b, offset, k) ==
    IF k = 0 THEN <<>>
    ELSE LET r == TransactionInput_from_bytes(SliceFrom(b, offset)) IN
        <<r.value>> \o ChainedInputs(b, offset + r.used, k - 1)

C8_ExactInputCount ==
    (op = "BitcoinTransaction::from_bytes" /\ Len(bytes) >= 4) =>
        LET c == CompactSize_from_bytes(SliceFrom(bytes, 4)) IN
        c.tag = "Ok" =>
            LET first == 4 + c.used
                n == CompleteInputs(bytes, first)
            IN
            /\ result.tag = "Ok" =>
                /\ AsU64(Len(result.value.inputs)) = c.value.value
                /\ Len(result.value.inputs) <= n
                /\ result.value.inputs
                     = ChainedInputs(bytes, first, Len(result.value.inputs))
            /\ Less(AsU64(n), c.value.value) => result = Err("InsufficientBytes")

(***************************************************************************)
(* C9.  CompactSize::from_bytes accepts a wider form than the value needs: *)
(* it returns the value and the wider consumed count, and encoding that    *)
(* value again does not give the consumed bytes back.                      *)
(***************************************************************************)
C9_NonMinimalAccepted ==
    op = "CompactSize::from_bytes" =>
        LET b == bytes IN
        /\ (Len(b) >= 3 /\ b[1] = 253 /\ b[3] = 0 /\ b[2] <= 252) =>
            /\ result = Ok([value |-> <<0, 0, 0, 0, 0, 0, 0, b[2]>>], 3)
            /\ CompactSize_to_bytes(result.value) # SubSeq(b, 1, 3)
        /\ (Len(b) >= 5 /\ b[1] = 254 /\ b[4] = 0 /\ b[5] = 0) =>
            /\ result = Ok([value |-> <<0, 0, 0, 0, 0, 0, b[3], b[2]>>], 5)
            /\ CompactSize_to_bytes(result.value) # SubSeq(b, 1, 5)
        /\ (Len(b) >= 9 /\ b[1] = 255 /\ \A i \in 6..9 : b[i] = 0) =>
            /\ result = Ok([value |-> <<0, 0, 0, 0, b[5], b[4], b[3], b[2]>>], 9)
            /\ CompactSize_to_bytes(result.value) # SubSeq(b, 1, 9)

C9_Witness ==
    /\ op = "CompactSize::from_bytes"
    /\ bytes = <<253, 5, 0>>
    /\ result = Ok([value |-> <<0, 0, 0, 0, 0, 0, 0, 5>>], 3)
    /\ CompactSize_to_bytes(result.value) = <<5>>

(***************************************************************************)
(* C10.  A successful decode depends only on the bytes it reports as       *)
(* consumed: the count is at most the buffer length, and decoding just     *)
(* those bytes, or those bytes followed by other bytes, gives the same     *)
(* result.                                                                 *)
(***************************************************************************)
C10_ConsumedBytesDecide ==
    (op \in FromBytesOps /\ result.tag = "Ok") =>
        /\ result.used <= Len(bytes)
        /\ LET consumed == SubSeq(bytes, 1, result.used) IN
            /\ Decode(op, consumed) = result
            /\ \A t \in Tails : Decode(op, consumed \o t) = result

C10_Witness ==
    /\ op = "Script::from_bytes"
    /\ result.tag = "Ok"
    /\ result.used > 1
    /\ result.used < Len(bytes)

=============================================================================
